---- MODULE Spec2Model ----
(***************************************************************************)
(* The retailer-search core of attireum-backend: the ScraperManager        *)
(* fan-out (app/scraper/scraper_manager.py), the BaseScraper extraction    *)
(* loop (app/scraper/base_scraper.py), the Farfetch card parser            *)
(* (app/scraper/farfetch_scraper.py), the search endpoint                  *)
(* (app/api/v1/search.py) on the ASOS scraper                              *)
(* (app/scrapers/asos_scraper.py), the Farfetch API parser                 *)
(* (app/scrapers/farfetch_scraper.py), and the in-memory stores of the     *)
(* wishlist and saved-search endpoints (app/api/v1/wishlist.py,            *)
(* app/api/v1/saved_searches.py).                                          *)
(*                                                                         *)
(* Texts are TLA+ strings read character by character.  An optional value  *)
(* (Python None, or an element that find_element does not find) is the     *)
(* empty tuple <<>>, a present value v is <<v>>.  Prices are the integer   *)
(* values of Python floats: the price texts of the model are written over  *)
(* the characters $ € , - blank x and the digits, on which float() accepts *)
(* exactly an optional sign followed by digits.                            *)
(*                                                                         *)
(* One call of search_all_retailers is the calling thread (pc, the         *)
(* accumulator all_products, the futures as_completed has yielded) and     *)
(* one task per registered scraper, run by the threads of a pool of        *)
(* max_workers (ThreadPoolExecutor accepts only max_workers >= 1).  The    *)
(* code reads no clock: elapsed records how long a task ran, to compare    *)
(* it with the timeout of future.result.                                   *)
(*                                                                         *)
(* Spec and FairSpec are search_all_retailers; MergeSpec is the same call  *)
(* on pages of several cards; SingleSpec and SingleFairSpec are the        *)
(* threads that call search_single_retailer on the shared manager;         *)
(* PureSpec applies _extract_price, the parsing loop and the search        *)
(* endpoint to the arguments of their bounded domains.  SingletonSpec is   *)
(* SingleSpec on the registry __init__ builds; PairSpec is two             *)
(* search_all_retailers calls that overlap on that registry; WishlistSpec  *)
(* and SavedSearchSpec are the requests the two stores handle, each        *)
(* recorded in history with its response.                                  *)
(***************************************************************************)
EXTENDS Integers, Sequences, FiniteSets, TLC

VARIABLES scrapers, max_workers, pc, all_products, queue, task, products,
          result, yielded, calls, elapsed,
          product_cards,
          frame, self_driver, quits, ndrivers, ncalls,
          arg, ret,
          search, page,
          wishlist_storage, saved_searches_db, now, history

\* One search_all_retailers call and the tasks of its pool; product_cards
\* is the listing each task's page held.
managerVars == <<pc, all_products, queue, task, products, result, yielded, calls,
                 elapsed, product_cards>>

\* The threads that call search_single_retailer, the driver attribute of
\* each scraper instance and the browser sessions created so far.
singleVars == <<frame, self_driver, quits, ndrivers, ncalls>>

\* One application of a function of the program: its argument and its outcome.
pureVars == <<arg, ret>>

\* The search_all_retailers calls that run at the same time on the shared
\* manager, and the listing each browser session shows.
pairVars == <<search, page>>

\* The module-level stores of the wishlist and saved-search endpoints, the
\* clock in seconds, and the requests handled so far with their responses.
storeVars == <<wishlist_storage, saved_searches_db, now, history>>

vars == <<scrapers, max_workers, managerVars, singleVars, pureVars, pairVars, storeVars>>

(***************************************************************************)
(* Bounds of the model.                                                    *)
(***************************************************************************)
NumRetailers == 2
MaxWorkers == 2
MaxCards == 1
NumCallers == 2
MaxCalls == 2
MaxText == 3
MaxListing == 2
MaxProducts == 2
MaxOps == 3
MaxTicks == 1

(***************************************************************************)
(* Program constants.                                                      *)
(***************************************************************************)
ResultTimeout == 60
Limit == 20

None == <<>>
Some(v) == <<v>>

(***************************************************************************)
(* Text helpers: str.replace(ch, ''), str.strip(), str.startswith.         *)
(***************************************************************************)
Char(s, i) == SubSeq(s, i, i)

RECURSIVE Remove(_, _)
Remove(s, ch) ==
    IF Len(s) = 0 THEN ""
    ELSE (IF Char(s, 1) = ch THEN "" ELSE Char(s, 1)) \o Remove(SubSeq(s, 2, Len(s)), ch)

RECURSIVE LStrip(_)
LStrip(s) ==
    IF Len(s) > 0 /\ Char(s, 1) = " " THEN LStrip(SubSeq(s, 2, Len(s))) ELSE s

RECURSIVE RStrip(_)
RStrip(s) ==
    IF Len(s) > 0 /\ Char(s, Len(s)) = " " THEN RStrip(SubSeq(s, 1, Len(s) - 1)) ELSE s

Strip(s) == RStrip(LStrip(s))

StartsWith(s, prefix) ==
    Len(s) >= Len(prefix) /\ SubSeq(s, 1, Len(prefix)) = prefix

(***************************************************************************)
(* float(text) and str(float) on integer-valued floats.                    *)
(***************************************************************************)
Digits == <<"0", "1", "2", "3", "4", "5", "6", "7", "8", "9">>

IsDigit(c) == \E d \in 1..10 : Digits[d] = c

DigitVal(c) == (CHOOSE d \in 1..10 : Digits[d] = c) - 1

RECURSIVE AllDigits(_)
AllDigits(s) ==
    Len(s) = 0 \/ (IsDigit(Char(s, 1)) /\ AllDigits(SubSeq(s, 2, Len(s))))

RECURSIVE DigitsVal(_, _)
DigitsVal(s, acc) ==
    IF Len(s) = 0 THEN acc
    ELSE DigitsVal(SubSeq(s, 2, Len(s)), 10 * acc + DigitVal(Char(s, 1)))

\* float(s): [ok |-> FALSE] stands for ValueError.
ParseFloat(s) ==
    LET t == Strip(s)
        neg == Len(t) > 0 /\ Char(t, 1) = "-"
        body == IF neg THEN SubSeq(t, 2, Len(t)) ELSE t
    IN IF Len(body) > 0 /\ AllDigits(body)
       THEN [ok |-> TRUE, val |-> IF neg THEN 0 - DigitsVal(body, 0) ELSE DigitsVal(body, 0)]
       ELSE [ok |-> FALSE, val |-> 0]

RECURSIVE NatStr(_)
NatStr(n) ==
    IF n < 10 THEN Digits[n + 1] ELSE NatStr(n \div 10) \o Digits[(n % 10) + 1]

\* str(x) of a float with an integer value: 5.0 -> "5.0", -5.0 -> "-5.0".
FloatStr(x) == (IF x < 0 THEN "-" \o NatStr(0 - x) ELSE NatStr(x)) \o ".0"

(***************************************************************************)
(* BaseScraper._extract_price                                              *)
(***************************************************************************)
_extract_price(price_text) ==
    LET price_clean == Strip(Remove(Remove(Remove(Remove(price_text, "$"), "€"), "£"), ","))
        f == ParseFloat(price_clean)
    IN IF f.ok THEN f.val ELSE 0

(***************************************************************************)
(* BaseScraper._generate_product_hash: sha256 of "brand_name_price".  The  *)
(* digest is taken to be collision free: it is represented by the string   *)
(* that was hashed.                                                        *)
(***************************************************************************)
Sha256Hex(s) == [sha256 |-> s]

HashString(brand, name, price) == brand \o "_" \o name \o "_" \o FloatStr(price)

\* A hash that also covers the product's URL.
_generate_product_hash_url(product_data) ==
    Sha256Hex(HashString(product_data.brand, product_data.name, product_data.price)
              \o "_" \o product_data.product_url)

_generate_product_hash(product_data) ==
    Sha256Hex(HashString(product_data.brand, product_data.name, product_data.price))

(***************************************************************************)
(* A product card of a listing page: the texts of its elements, each       *)
(* optional (find_element raises when the element is missing), and the     *)
(* href attribute of its first link (get_attribute may return None).       *)
(***************************************************************************)
Card(brand, name, price, original, href) ==
    [brand |-> brand, name |-> name, price |-> price, original |-> original, href |-> href]

\* round(num / den * 100, 2) in hundredths of a percent, den > 0.
RoundPercent(num, den) ==
    LET q == (10000 * num) \div den
        r == (10000 * num) % den
    IN IF 2 * r > den \/ (2 * r = den /\ q % 2 = 1) THEN q + 1 ELSE q

BaseUrl(retailer_name) ==
    IF retailer_name = "Farfetch" THEN "https://www.farfetch.com"
    ELSE "https://www." \o retailer_name \o ".com"

\* The validation of the essential fields: TRUE when the card is rejected.
Rejected(product_url, price) == product_url = "" \/ price = 0

\* FarfetchScraper._parse_product_card: None, or the product dictionary.
_parse_product_card(card_element, base_url) ==
    LET brand == IF card_element.brand = None THEN "Unknown"
                 ELSE Strip(card_element.brand[1])
        name == IF card_element.name = None THEN "Unknown Product"
                ELSE Strip(card_element.name[1])
        price == IF card_element.price = None THEN 0
                 ELSE _extract_price(Strip(card_element.price[1]))
        original_price == IF card_element.original = None THEN None
                          ELSE Some(_extract_price(Strip(card_element.original[1])))
        discount_percentage ==
            IF original_price # None /\ original_price[1] > 0
            THEN Some(RoundPercent(original_price[1] - price, original_price[1]))
            ELSE None
        product_url == IF card_element.href = None THEN ""
                       ELSE IF StartsWith(card_element.href[1], "http")
                            THEN card_element.href[1]
                            ELSE base_url \o card_element.href[1]
    IN IF Rejected(product_url, price) THEN None
       ELSE Some([brand |-> brand, name |-> name, price |-> price,
                  original_price |-> original_price,
                  discount_percentage |-> discount_percentage,
                  product_url |-> product_url])

\* A loop body that puts the parsed card in front of products.
ParseAndTagInFront(retailer_name, prods, card) ==
    LET product_data == _parse_product_card(card, BaseUrl(retailer_name))
    IN IF product_data = None THEN prods
       ELSE <<[brand |-> product_data[1].brand,
               name |-> product_data[1].name,
               price |-> product_data[1].price,
               original_price |-> product_data[1].original_price,
               discount_percentage |-> product_data[1].discount_percentage,
               product_url |-> product_data[1].product_url,
               retailer_name |-> retailer_name,
               scraped_at |-> "time.time()",
               product_hash |-> _generate_product_hash(product_data[1])]>> \o prods

\* BaseScraper.search_products, the body of the loop over the cards: the
\* parsed card tagged with the retailer, the reading of the clock (the code
\* never compares it: one token stands for it) and its hash, appended to
\* products.
ParseAndTag(retailer_name, prods, card) ==
    LET product_data == _parse_product_card(card, BaseUrl(retailer_name))
    IN IF product_data = None THEN prods
       ELSE Append(prods,
                   [brand |-> product_data[1].brand,
                    name |-> product_data[1].name,
                    price |-> product_data[1].price,
                    original_price |-> product_data[1].original_price,
                    discount_percentage |-> product_data[1].discount_percentage,
                    product_url |-> product_data[1].product_url,
                    retailer_name |-> retailer_name,
                    scraped_at |-> "time.time()",
                    product_hash |-> _generate_product_hash(product_data[1])])

(***************************************************************************)
(* The registry of ScraperManager.__init__, in insertion order (the        *)
(* retailers after Farfetch are the ones the source lists for addition).   *)
(***************************************************************************)
RetailerOrder == <<"Farfetch", "Ounass", "Bloomingdales", "Selfridges", "Revolve", "SSENSE">>

Retailers == {RetailerOrder[i] : i \in 1..NumRetailers}

\* The cards a listing page may hold.
Cards ==
    { Card(Some("Gucci"), Some("Dress"), Some("$5"), None, Some("/p1")),
      Card(Some("Gucci"), Some("Dress"), Some("-5"), None, Some("http://x/p2")),
      Card(Some("Gucci"), Some("Dress"), Some("$0"), None, Some("/p3")),
      Card(None, Some(" Dress "), Some("$1,5"), Some("$20"), None) }

\* The listings a page may hold: up to MaxCards cards.
Listings == UNION {[1..n -> Cards] : n \in 0..MaxCards}

\* BaseScraper.search_products, the loop over product_cards.
RECURSIVE ParseCardsFrom(_, _, _, _)
ParseCardsFrom(retailer_name, prods, listing, i) ==
    IF i > Len(listing) THEN prods
    ELSE ParseCardsFrom(retailer_name, ParseAndTag(retailer_name, prods, listing[i]), listing, i + 1)

ParseCards(retailer_name, listing) == ParseCardsFrom(retailer_name, <<>>, listing, 1)

\* The lists search_products of each scraper can build: one per listing.
SearchOutcomes == [a \in Retailers |-> {ParseCards(a, listing) : listing \in Listings}]

\* How long a task ran when it finishes: within the bound, or beyond it.
Durations == {ResultTimeout, ResultTimeout + 1}

TaskStates == {"none", "queued", "running", "hung", "returned", "raised"}

\* Future.done()
Done(a) == task[a] \in {"returned", "raised"}

\* The tasks a worker thread of the pool is executing.
InFlight == {a \in Retailers : task[a] \in {"running", "hung"}}

\* A queue in which every scraper is submitted twice.
RECURSIVE SubmitAllTwice(_)
SubmitAllTwice(i) ==
    IF i > Len(RetailerOrder) THEN <<>>
    ELSE (IF RetailerOrder[i] \in scrapers THEN <<RetailerOrder[i], RetailerOrder[i]>> ELSE <<>>)
         \o SubmitAllTwice(i + 1)

\* The work queue after the submits of the dict comprehension.
RECURSIVE SubmitAll(_)
SubmitAll(i) ==
    IF i > Len(RetailerOrder) THEN <<>>
    ELSE (IF RetailerOrder[i] \in scrapers THEN <<RetailerOrder[i]>> ELSE <<>>)
         \o SubmitAll(i + 1)

\* ThreadPoolExecutor: a queued work item starts when fewer than max_workers run.
WorkerFree == Cardinality(InFlight) < max_workers

\* A collector that reads the list the task was filling, whatever its outcome.
FutureResultShared(a) == [ok |-> TRUE, value |-> products[a], exc |-> ""]

\* future.result(timeout=60): the value, the task's exception, or TimeoutError
\* when the future is still not done after the timeout.
FutureResult(a) ==
    IF task[a] = "returned" THEN [ok |-> TRUE, value |-> result[a], exc |-> ""]
    ELSE IF task[a] = "raised" THEN [ok |-> FALSE, value |-> <<>>, exc |-> "WebDriverException"]
    ELSE [ok |-> FALSE, value |-> <<>>, exc |-> "TimeoutError"]

\* A handler that catches the timeout only.
CaughtTimeoutOnly(exc) == exc = "TimeoutError"

\* except Exception
Caught(exc) == exc \in {"WebDriverException", "TimeoutError"}

\* An accumulator into which a list is inserted behind its first element.
ExtendInside(acc, prods) ==
    IF acc = <<>> THEN prods ELSE <<Head(acc)>> \o prods \o Tail(acc)

\* all_products.extend(products)
Extend(acc, prods) == acc \o prods

\* A loop that is left after the first future it handles.
SomeCollected == yielded # {} \/ scrapers = {}

\* as_completed has yielded every submitted future.
AllCollected == yielded = scrapers

TypeOK ==
    /\ scrapers \subseteq Retailers
    /\ max_workers \in 1..MaxWorkers
    /\ pc \in {"idle", "collecting", "returned", "raised"}
    /\ task \in [Retailers -> TaskStates]
    /\ yielded \subseteq scrapers
    /\ calls \in [Retailers -> Nat]
    /\ elapsed \in [Retailers -> {0} \cup Durations]

\* The threads that call into the module-level scraper_manager.
Callers == 1..NumCallers

\* The locals of one thread in search_single_retailer and in the
\* search_products call it makes; driver is the driver that thread's call of
\* _init_driver returned, path the way its try block was left, raised
\* whether search_products raised.  test tells that the thread entered
\* through test_retailer, verdict is what test_retailer returned.
IdleFrame ==
    [pc |-> "idle", retailer_name |-> "", products |-> <<>>, driver |-> None,
     path |-> "", result |-> <<>>, raised |-> FALSE, test |-> FALSE, verdict |-> None]

\* ScraperManager.__init__: the registry and the size of the pool.
Constructed ==
    /\ scrapers \in SUBSET Retailers
    /\ max_workers \in 1..MaxWorkers

\* No search_all_retailers call has been made.
ManagerIdle ==
    /\ pc = "idle"
    /\ all_products = <<>>
    /\ queue = <<>>
    /\ task = [a \in Retailers |-> "none"]
    /\ products = [a \in Retailers |-> <<>>]
    /\ result = [a \in Retailers |-> <<>>]
    /\ yielded = {}
    /\ calls = [a \in Retailers |-> 0]
    /\ elapsed = [a \in Retailers |-> 0]
    /\ product_cards = [a \in Retailers |-> <<>>]

\* BaseScraper.__init__ leaves self.driver None; no thread has called yet.
SingleIdle ==
    /\ frame = [t \in Callers |-> IdleFrame]
    /\ self_driver = [a \in Retailers |-> None]
    /\ quits = <<>>
    /\ ndrivers = 0
    /\ ncalls = 0

\* No function is being applied.
PureIdle == arg = None /\ ret = None

\* The locals of one search_all_retailers call and of the search_products
\* call of each of its tasks; before the call there is no task.
IdleSearch ==
    [pc |-> "idle", query |-> "", all_products |-> <<>>, task |-> <<>>, products |-> <<>>]

\* No search_all_retailers call is running; no browser session exists.
PairIdle ==
    /\ search = [c \in Callers |-> IdleSearch]
    /\ page = <<>>

\* What time.time() reads when the application is started.
Boot == 1700000000

\* wishlist_storage = [] and saved_searches_db = {} at import.
StoreIdle ==
    /\ wishlist_storage = <<>>
    /\ saved_searches_db = <<>>
    /\ now = Boot
    /\ history = <<>>

Init == Constructed /\ ManagerIdle /\ SingleIdle /\ PureIdle /\ PairIdle /\ StoreIdle

\* search_all_retailers is called: the accumulator is created and one task
\* per registered scraper is submitted to a new executor.
Call ==
    /\ pc \in {"idle", "returned"}
    /\ pc' = "collecting"
    /\ all_products' = <<>>
    /\ queue' = SubmitAll(1)
    /\ task' = [a \in Retailers |-> IF a \in scrapers THEN "queued" ELSE "none"]
    /\ products' = [a \in Retailers |-> <<>>]
    /\ result' = [a \in Retailers |-> <<>>]
    /\ yielded' = {}
    /\ calls' = [a \in Retailers |-> 0]
    /\ elapsed' = [a \in Retailers |-> 0]
    /\ product_cards' = [a \in Retailers |-> <<>>]
    /\ UNCHANGED <<scrapers, max_workers, singleVars, pureVars, pairVars, storeVars>>

\* A worker thread takes the oldest work item and enters search_products.
WorkerStart ==
    /\ queue # <<>>
    /\ WorkerFree
    /\ LET a == Head(queue)
       IN /\ task' = [task EXCEPT ![a] = "running"]
          /\ calls' = [calls EXCEPT ![a] = @ + 1]
          /\ products' = [products EXCEPT ![a] = <<>>]
    /\ queue' = Tail(queue)
    /\ UNCHANGED <<scrapers, max_workers, pc, all_products, result, yielded, elapsed,
                   product_cards, singleVars, pureVars, pairVars, storeVars>>

\* search_products runs to its end on the listing the page holds: the cards
\* are parsed in order into prods, then the finally block runs, where
\* driver.quit() raises or prods is returned.
TaskFinish(a, prods, quit_raises, d) ==
    /\ task[a] = "running"
    /\ task' = [task EXCEPT ![a] = IF quit_raises THEN "raised" ELSE "returned"]
    /\ products' = [products EXCEPT ![a] = prods]
    /\ result' = [result EXCEPT ![a] = IF quit_raises THEN <<>> ELSE prods]
    /\ elapsed' = [elapsed EXCEPT ![a] = d]
    /\ UNCHANGED <<scrapers, max_workers, pc, all_products, queue, yielded, calls,
                   product_cards, singleVars, pureVars, pairVars, storeVars>>

\* A blocking call of search_products (driver.get, the explicit wait) never returns.
TaskHang(a) ==
    /\ task[a] = "running"
    /\ task' = [task EXCEPT ![a] = "hung"]
    /\ UNCHANGED <<scrapers, max_workers, pc, all_products, queue, products, result, yielded, calls, elapsed,
                   product_cards, singleVars, pureVars, pairVars, storeVars>>

\* One iteration of the loop over as_completed: a finished future is yielded
\* and its result is appended, or its exception is logged.
Collect(a) ==
    /\ pc = "collecting"
    /\ a \in scrapers \ yielded
    /\ Done(a)
    /\ yielded' = yielded \cup {a}
    /\ LET r == FutureResult(a)
       IN IF r.ok
          THEN all_products' = Extend(all_products, r.value) /\ pc' = pc
          ELSE IF Caught(r.exc)
               THEN UNCHANGED <<all_products, pc>>
               ELSE all_products' = all_products /\ pc' = "raised"
    /\ UNCHANGED <<scrapers, max_workers, queue, task, products, result, calls, elapsed,
                   product_cards, singleVars, pureVars, pairVars, storeVars>>

\* The loop ends, the executor is shut down and all_products is returned.
Return ==
    /\ pc = "collecting"
    /\ AllCollected
    /\ pc' = "returned"
    /\ UNCHANGED <<scrapers, max_workers, all_products, queue, task, products, result, yielded, calls, elapsed,
                   product_cards, singleVars, pureVars, pairVars, storeVars>>

Next ==
    \/ Call
    \/ WorkerStart
    \/ \E a \in Retailers, quit_raises \in BOOLEAN, d \in Durations :
          \E prods \in SearchOutcomes[a] : TaskFinish(a, prods, quit_raises, d)
    \/ \E a \in Retailers : TaskHang(a)
    \/ \E a \in Retailers : Collect(a)
    \/ Return

Spec == Init /\ [][Next]_vars

\* The pool's threads run, and the collecting thread runs; a task that hangs
\* is the only thing that never takes its next step.
Fairness ==
    /\ WF_vars(WorkerStart)
    /\ \A a \in Retailers :
          WF_vars(\E quit_raises \in BOOLEAN, d \in Durations :
                      \E prods \in SearchOutcomes[a] : TaskFinish(a, prods, quit_raises, d))
    /\ \A a \in Retailers : WF_vars(Collect(a))
    /\ WF_vars(Return)

FairSpec == Spec /\ Fairness

(***************************************************************************)
(* search_single_retailer, called by the threads of Callers on the shared  *)
(* scraper_manager, and the search_products call it makes, step by step:   *)
(* _init_driver, the try block up to the end of the parsing loop, the      *)
(* finally block.  Browser sessions are numbered in the order in which     *)
(* _init_driver creates them; quits[d] counts the quit() calls on d.       *)
(***************************************************************************)
Paths == {"normal", "timeout", "exception"}

\* search_single_retailer is entered: an unknown retailer returns [] at
\* once, a registered one enters scraper.search_products.
SingleCall(t, retailer_name) ==
    /\ frame[t].pc \in {"idle", "returned"}
    /\ ncalls < MaxCalls
    /\ ncalls' = ncalls + 1
    /\ frame' = [frame EXCEPT ![t] =
                    [IdleFrame EXCEPT !.retailer_name = retailer_name,
                                      !.pc = IF retailer_name \in scrapers
                                             THEN "init" ELSE "returned"]]
    /\ UNCHANGED <<scrapers, max_workers, managerVars, self_driver, quits, ndrivers, pureVars, pairVars, storeVars>>

\* A test that passes whatever the search returned.
TestVerdictAlways(result_products) == Len(result_products) >= 0

\* return len(products) > 0
TestVerdict(result_products) == Len(result_products) > 0

\* test_retailer is entered: an unknown retailer returns False at once, for
\* a registered one search_single_retailer is called with the test query.
TestRetailer(t, retailer_name) ==
    /\ frame[t].pc \in {"idle", "returned"}
    /\ ncalls < MaxCalls
    /\ ncalls' = ncalls + 1
    /\ frame' = [frame EXCEPT ![t] =
                    [IdleFrame EXCEPT !.retailer_name = retailer_name,
                                      !.test = TRUE,
                                      !.pc = IF retailer_name \in scrapers
                                             THEN "init" ELSE "returned",
                                      !.verdict = IF retailer_name \in scrapers
                                                  THEN None ELSE Some(FALSE)]]
    /\ UNCHANGED <<scrapers, max_workers, managerVars, self_driver, quits, ndrivers, pureVars, pairVars, storeVars>>

\* self.driver = self._init_driver(): a new session is stored in the
\* instance attribute, or _init_driver raises and the attribute keeps its value.
InitDriver(t, raises) ==
    /\ frame[t].pc = "init"
    /\ IF raises
       THEN /\ frame' = [frame EXCEPT ![t].pc = "finally", ![t].path = "exception"]
            /\ UNCHANGED <<self_driver, quits, ndrivers>>
       ELSE /\ ndrivers' = ndrivers + 1
            /\ quits' = Append(quits, 0)
            /\ self_driver' = [self_driver EXCEPT ![frame[t].retailer_name] = Some(ndrivers + 1)]
            /\ frame' = [frame EXCEPT ![t].pc = "scraping", ![t].driver = Some(ndrivers + 1)]
    /\ UNCHANGED <<scrapers, max_workers, managerVars, ncalls, pureVars, pairVars, storeVars>>

\* The rest of the try block: the page is loaded and its cards are parsed
\* into prods, or the wait times out or another exception is logged, with
\* nothing parsed.
Scrape(t, a, path, prods) ==
    /\ frame[t].pc = "scraping"
    /\ frame[t].retailer_name = a
    /\ frame' = [frame EXCEPT ![t].pc = "finally",
                              ![t].path = path,
                              ![t].products = IF path = "normal" THEN prods ELSE <<>>]
    /\ UNCHANGED <<scrapers, max_workers, managerVars, self_driver, quits, ndrivers, ncalls, pureVars, pairVars, storeVars>>

\* A blocking driver call of the try block never returns.
Hang(t) ==
    /\ frame[t].pc = "scraping"
    /\ frame' = [frame EXCEPT ![t].pc = "hung"]
    /\ UNCHANGED <<scrapers, max_workers, managerVars, self_driver, quits, ndrivers, ncalls, pureVars, pairVars, storeVars>>

\* finally: if self.driver: self.driver.quit().  Then search_products
\* returns products, or quit() raised and the except clause of
\* search_single_retailer returns []; test_retailer returns its verdict on
\* the list it got.
Finally(t, quit_raises) ==
    /\ frame[t].pc = "finally"
    /\ LET d == self_driver[frame[t].retailer_name]
           Verdict(result_products) ==
               IF frame[t].test THEN Some(TestVerdict(result_products)) ELSE None
       IN IF d = None
          THEN /\ quits' = quits
               /\ frame' = [frame EXCEPT ![t].pc = "returned",
                                         ![t].result = frame[t].products,
                                         ![t].verdict = Verdict(frame[t].products)]
          ELSE /\ quits' = [quits EXCEPT ![d[1]] = @ + 1]
               /\ frame' = [frame EXCEPT
                               ![t].pc = IF quit_raises /\ ~Caught("WebDriverException")
                                         THEN "raised" ELSE "returned",
                               ![t].raised = quit_raises,
                               ![t].result = IF quit_raises THEN <<>> ELSE frame[t].products,
                               ![t].verdict = IF quit_raises THEN Verdict(<<>>)
                                              ELSE Verdict(frame[t].products)]
    /\ UNCHANGED <<scrapers, max_workers, managerVars, self_driver, ndrivers, ncalls, pureVars, pairVars, storeVars>>

SingleNext ==
    \/ \E t \in Callers, retailer_name \in Retailers : SingleCall(t, retailer_name)
    \/ \E t \in Callers, retailer_name \in Retailers : TestRetailer(t, retailer_name)
    \/ \E t \in Callers, raises \in BOOLEAN : InitDriver(t, raises)
    \/ \E t \in Callers, a \in Retailers, path \in Paths :
          \E prods \in SearchOutcomes[a] : Scrape(t, a, path, prods)
    \/ \E t \in Callers : Hang(t)
    \/ \E t \in Callers, quit_raises \in BOOLEAN : Finally(t, quit_raises)

SingleSpec == Init /\ [][SingleNext]_vars

\* The product types of the queries.
ProductTypes == {"Dresses", "Bags"}

\* The cards of the listing page of a product type.
QueryListing(product_type) ==
    IF product_type = "Dresses"
    THEN <<Card(Some("Gucci"), Some("Dress"), Some("$5"), None, Some("/p1"))>>
    ELSE IF product_type = "Bags"
         THEN <<Card(Some("Prada"), Some("Bag"), Some("$7"), None, Some("/p2"))>>
         ELSE <<>>

\* The module-level scraper_manager as the source constructs it: Farfetch is
\* the one scraper the registry holds.
SingletonInit == Init /\ scrapers = {RetailerOrder[1]} /\ max_workers = MaxWorkers

\* The threads that call search_single_retailer and test_retailer on it; the
\* page a search loads is empty or the listing of one product type.
SingletonNext ==
    \/ \E t \in Callers, retailer_name \in Retailers : SingleCall(t, retailer_name)
    \/ \E t \in Callers, retailer_name \in Retailers : TestRetailer(t, retailer_name)
    \/ \E t \in Callers, raises \in BOOLEAN : InitDriver(t, raises)
    \/ \E t \in Callers, a \in Retailers, path \in Paths :
          \E product_type \in ProductTypes \cup {""} :
             Scrape(t, a, path, ParseCards(a, QueryListing(product_type)))
    \/ \E t \in Callers : Hang(t)
    \/ \E t \in Callers, quit_raises \in BOOLEAN : Finally(t, quit_raises)

SingletonSpec == SingletonInit /\ [][SingletonNext]_vars

\* Every calling thread runs; a thread blocked in a driver call is the only
\* one that never takes its next step.
SingleFairness ==
    \A t \in Callers :
        /\ WF_vars(\E raises \in BOOLEAN : InitDriver(t, raises))
        /\ WF_vars(\E a \in Retailers, path \in Paths :
                      \E prods \in SearchOutcomes[a] : Scrape(t, a, path, prods))
        /\ WF_vars(\E quit_raises \in BOOLEAN : Finally(t, quit_raises))

SingleFairSpec == SingleSpec /\ SingleFairness

(***************************************************************************)
(* search_all_retailers on listing pages of several cards: the page each   *)
(* task's search_products call was served is kept in product_cards.        *)
(***************************************************************************)
\* The pages: empty, two valid cards in either order, the same card twice,
\* and a rejected card between two valid ones.
MergePages ==
    LET dress == Card(Some("Gucci"), Some("Dress"), Some("$5"), None, Some("/p1"))
        bag == Card(Some("Prada"), Some("Bag"), Some("$7"), None, Some("/p2"))
        free == Card(Some("Gucci"), Some("Dress"), Some("$0"), None, Some("/p3"))
    IN {<<>>, <<dress, bag>>, <<bag, dress>>, <<dress, dress>>, <<dress, free, bag>>}

\* search_products runs to its end on the page cards: the cards are parsed
\* in order, then the finally block runs, where driver.quit() raises or the
\* products are returned.
TaskRun(a, cards, quit_raises) ==
    /\ task[a] = "running"
    /\ product_cards' = [product_cards EXCEPT ![a] = cards]
    /\ task' = [task EXCEPT ![a] = IF quit_raises THEN "raised" ELSE "returned"]
    /\ products' = [products EXCEPT ![a] = ParseCards(a, cards)]
    /\ result' = [result EXCEPT ![a] = IF quit_raises THEN <<>> ELSE ParseCards(a, cards)]
    /\ elapsed' = [elapsed EXCEPT ![a] = ResultTimeout]
    /\ UNCHANGED <<scrapers, max_workers, pc, all_products, queue, yielded, calls,
                   singleVars, pureVars, pairVars, storeVars>>

MergeNext ==
    \/ Call
    \/ WorkerStart
    \/ \E a \in Retailers, cards \in MergePages, quit_raises \in BOOLEAN :
          TaskRun(a, cards, quit_raises)
    \/ \E a \in Retailers : TaskHang(a)
    \/ \E a \in Retailers : Collect(a)
    \/ Return

MergeSpec == Init /\ [][MergeNext]_vars

(***************************************************************************)
(* BaseScraper._extract_price as it is called: the argument is a text or   *)
(* a value that is no text (None), the try body raises AttributeError on   *)
(* the latter and ValueError on a text float() rejects, and the except     *)
(* clause turns both into 0.0.                                             *)
(***************************************************************************)
TextValue(text) == [type |-> "str", text |-> text]

NoneValue == [type |-> "NoneType", text |-> ""]

\* The characters the price texts are written over.
Alphabet == {"$", "€", ",", " ", "-", "5", "x"}

RECURSIVE Texts(_)
Texts(n) ==
    IF n = 0 THEN {""}
    ELSE LET shorter == Texts(n - 1)
         IN shorter \cup {t \o c : t \in shorter, c \in Alphabet}

PriceValues == {NoneValue} \cup {TextValue(t) : t \in Texts(MaxText)}

\* price_text.replace('$', '').replace('€', '').replace('£', '') and
\* .replace(',', '').strip()
PriceClean(price_text) ==
    Strip(Remove(Remove(Remove(Remove(price_text, "$"), "€"), "£"), ","))

\* The try body: the float, or the exception it raises.
ExtractPriceTry(value) ==
    IF value.type # "str" THEN [exc |-> "AttributeError", val |-> 0]
    ELSE LET f == ParseFloat(PriceClean(value.text))
         IN IF f.ok THEN [exc |-> "", val |-> f.val]
            ELSE [exc |-> "ValueError", val |-> 0]

\* A handler for the errors of float() only.
ExtractPriceCatchesValueError(exc) == exc = "ValueError"

\* except Exception
ExtractPriceCatches(exc) == exc \in {"ValueError", "AttributeError"}

\* The call: what it returns, or the exception that leaves it.
ExtractPriceCall(value) ==
    LET r == ExtractPriceTry(value)
    IN IF r.exc = "" THEN [raised |-> "", value |-> r.val]
       ELSE IF ExtractPriceCatches(r.exc) THEN [raised |-> "", value |-> 0]
       ELSE [raised |-> r.exc, value |-> 0]

(***************************************************************************)
(* BaseScraper.search_products, the loop over the product cards, with a    *)
(* parser that may raise on a card: raising is the set of positions at     *)
(* which _parse_product_card raises.                                       *)
(***************************************************************************)
\* A loop whose handler throws away what was parsed so far.
LoopBodyAbort(retailer_name, prods, card, parse_raises) ==
    IF parse_raises THEN <<>> ELSE ParseAndTag(retailer_name, prods, card)

\* try: parse, tag, append; except Exception: continue
LoopBody(retailer_name, prods, card, parse_raises) ==
    IF parse_raises THEN prods ELSE ParseAndTag(retailer_name, prods, card)

RECURSIVE LoopFrom(_, _, _, _, _)
LoopFrom(retailer_name, prods, cards, raising, i) ==
    IF i > Len(cards) THEN prods
    ELSE LoopFrom(retailer_name,
                  LoopBody(retailer_name, prods, cards[i], i \in raising),
                  cards, raising, i + 1)

Loop(retailer_name, cards, raising) == LoopFrom(retailer_name, <<>>, cards, raising, 1)

\* The pages the loop is run on: up to MaxListing cards.
Pages == UNION {[1..n -> Cards] : n \in 0..MaxListing}

(***************************************************************************)
(* The search endpoint (app/api/v1/search.py) on the ASOS scraper          *)
(* (app/scrapers/asos_scraper.py).  An ASOS product is what the ASOS API   *)
(* returned for it; its prices are integer-valued floats on which the      *)
(* discount formula is exact.                                              *)
(***************************************************************************)
AsosProduct(id, brandName, current, previous, isInStock) ==
    [id |-> id, brandName |-> brandName, current |-> current, previous |-> previous,
     isInStock |-> isInStock]

\* The products the ASOS API may return.
Catalogue ==
    { AsosProduct("1", "Gucci", 9, None, TRUE),
      AsosProduct("2", "ASOS", 1, Some(10), TRUE),
      AsosProduct("3", "Gucci", 5, Some(10), FALSE),
      AsosProduct("4", "ASOS", 12, Some(10), TRUE) }

\* ((original_price - current_price) / original_price) * 100
AsosDiscount(original_price, current_price) ==
    ((original_price - current_price) * 100) \div original_price

\* ASOSScraper._transform_product
_transform_product(asos_product) ==
    LET current_price == asos_product.current
        previous_price == asos_product.previous
        on_sale == previous_price # None /\ previous_price[1] # 0
                   /\ previous_price[1] > current_price
    IN [product_id |-> "asos_" \o asos_product.id,
        retailer_name |-> "ASOS",
        brand |-> asos_product.brandName,
        price |-> current_price,
        original_price |-> IF on_sale THEN previous_price ELSE None,
        discount_percentage |->
            IF on_sale THEN Some(AsosDiscount(previous_price[1], current_price)) ELSE None,
        in_stock |-> asos_product.isInStock,
        scraped_at |-> "datetime.utcnow().isoformat()Z"]

\* The truth value of a float.
Truthy(x) == x # 0

\* ASOSScraper.search_products, the loop over products[:limit].
RECURSIVE TransformFrom(_, _, _, _, _)
TransformFrom(transformed_products, asos_products, i, min_price, max_price) ==
    IF i > Len(asos_products) THEN transformed_products
    ELSE LET transformed == _transform_product(asos_products[i])
             skip == \/ (Truthy(min_price) /\ transformed.price < min_price)
                     \/ (Truthy(max_price) /\ transformed.price > max_price)
         IN TransformFrom(IF skip THEN transformed_products
                          ELSE Append(transformed_products, transformed),
                          asos_products, i + 1, min_price, max_price)

\* search_asos_products: [] when the request to the API fails.
search_asos_products(response, limit, min_price, max_price) ==
    IF ~response.ok THEN <<>>
    ELSE LET n == IF Len(response.products) < limit THEN Len(response.products) ELSE limit
         IN TransformFrom(<<>>, SubSeq(response.products, 1, n), 1, min_price, max_price)

\* str.lower() on the letters the brands are written with.
UpperCase == <<"A", "C", "G", "I", "O", "S", "U">>

LowerCase == <<"a", "c", "g", "i", "o", "s", "u">>

LowerChar(c) ==
    IF \E k \in DOMAIN UpperCase : UpperCase[k] = c
    THEN LowerCase[CHOOSE k \in DOMAIN UpperCase : UpperCase[k] = c]
    ELSE c

RECURSIVE Lower(_)
Lower(s) == IF Len(s) = 0 THEN "" ELSE LowerChar(Char(s, 1)) \o Lower(SubSeq(s, 2, Len(s)))

\* sub in s
Contains(s, sub) ==
    \E i \in 0..(Len(s) - Len(sub)) : SubSeq(s, i + 1, i + Len(sub)) = sub

\* any(brand in p['brand'].lower() for brand in brand_lower)
BrandMatches(p, brands) ==
    \E k \in DOMAIN brands : Contains(Lower(p.brand), Lower(brands[k]))

\* The product list of the real-data path: the ASOS search and, when brands
\* are given, the brand filter.
RealProducts(query, response) ==
    LET real_products ==
            search_asos_products(response, Limit, query.price_min, query.price_max)
    IN IF query.brands # <<>>
       THEN SelectSeq(real_products, LAMBDA p : BrandMatches(p, query.brands))
       ELSE real_products

\* The one product of the fallback path.
MockProducts ==
    << [product_id |-> "prod_1", retailer_name |-> "Farfetch", brand |-> "Gucci",
        price |-> 1200, original_price |-> Some(1500), discount_percentage |-> Some(20),
        in_stock |-> TRUE, scraped_at |-> "2025-10-18T19:00:00Z"] >>

\* A response whose count is that of the fallback list.
SearchResponseMockCount(results) ==
    [results |-> results, total_count |-> Len(MockProducts)]

\* SearchResponse(results=..., total_count=len(...)) of both return statements.
SearchResponse(results) == [results |-> results, total_count |-> Len(results)]

\* An except clause for the errors of the HTTP request only.
SearchCatchesRequestException(exc) == exc = "RequestException"

\* except Exception around the ASOS search and the brand filter.
SearchCatches(exc) == TRUE

\* An endpoint that moves its first result to the end whenever a sort key is given.
search_products_reordering(search_request, response) ==
    IF response.raises # None /\ ~SearchCatches(response.raises[1])
    THEN [error |-> response.raises[1]]
    ELSE LET real_products == IF response.raises # None THEN <<>>
                              ELSE RealProducts(search_request, response)
         IN IF real_products # <<>>
            THEN SearchResponse(IF search_request.sort_by # None
                                THEN Append(Tail(real_products), Head(real_products))
                                ELSE real_products)
            ELSE SearchResponse(MockProducts)

\* The endpoint search_products: the real products when there are any, the
\* mock product otherwise, also when the try block raised.
\* search_request.sort_by and query.additional_filters are never read.
search_products(search_request, response) ==
    IF response.raises # None /\ ~SearchCatches(response.raises[1])
    THEN [error |-> response.raises[1]]
    ELSE LET real_products == IF response.raises # None THEN <<>>
                              ELSE RealProducts(search_request, response)
         IN IF real_products # <<>>
            THEN SearchResponse(real_products)
            ELSE SearchResponse(MockProducts)

\* The sort keys a request may carry: none, the three keys of price and
\* discount, and a key no ordering is defined for.
SortKeys == {None, Some("price_asc"), Some("price_desc"), Some("discount_desc"),
             Some("relevance")}

\* The requests: the fields of SearchQuery and SearchRequest the result can depend on.
SearchRequests ==
    [price_min : {0, 5}, price_max : {0, 9},
     brands : {<<>>, <<"GUCCI">>, <<"As">>},
     in_stock_only : BOOLEAN, on_sale_only : BOOLEAN,
     sort_by : SortKeys]

\* What the ASOS search meets: a failure of the request (the scraper
\* returns []), an exception that leaves search_asos_products, or an answer
\* of up to MaxProducts products.
Responses ==
    {[ok |-> FALSE, raises |-> None, products |-> <<>>],
     [ok |-> FALSE, raises |-> Some("Exception"), products |-> <<>>]}
    \cup {[ok |-> TRUE, raises |-> None, products |-> ps] :
             ps \in UNION {[1..n -> Catalogue] : n \in 0..MaxProducts}}

(***************************************************************************)
(* search_all_retailers called by the threads of Callers at the same time  *)
(* on the shared scraper_manager.  Each call has its own accumulator, its  *)
(* own executor and its own futures; the tasks of all calls run            *)
(* search_products on the same scraper instances, whose attribute          *)
(* self.driver each of them assigns and reads.  page[d] is the product     *)
(* type whose listing session d shows ("" before any page is loaded).      *)
(* Blocking driver calls are taken to return.                              *)
(***************************************************************************)
\* The tasks of call c that a worker thread of its executor is running.
PairRunning(c) == {a \in DOMAIN search[c].task :
                      search[c].task[a] \in {"opened", "loaded", "finally"}}

\* The work items of call c are taken in the order they were submitted.
PairNextQueued(c, a) ==
    /\ search[c].pc = "collecting"
    /\ search[c].task[a] = "queued"
    /\ \A i, j \in 1..NumRetailers :
          (RetailerOrder[j] = a /\ i < j) => search[c].task[RetailerOrder[i]] # "queued"

\* search_all_retailers is called with a query: the accumulator is created
\* and one task per registered scraper is submitted to a new executor.
PairCall(c, product_type) ==
    /\ search[c].pc = "idle"
    /\ search' = [search EXCEPT ![c] =
                    [IdleSearch EXCEPT
                        !.pc = "collecting",
                        !.query = product_type,
                        !.task = [a \in Retailers |->
                                     IF a \in scrapers THEN "queued" ELSE "none"],
                        !.products = [a \in Retailers |-> <<>>]]]
    /\ UNCHANGED <<scrapers, max_workers, managerVars, singleVars, pureVars, page, storeVars>>

\* A worker thread of call c takes the task of scraper a and runs
\* self.driver = self._init_driver().
PairInitDriver(c, a, raises) ==
    /\ PairNextQueued(c, a)
    /\ Cardinality(PairRunning(c)) < max_workers
    /\ IF raises
       THEN /\ search' = [search EXCEPT ![c].task[a] = "finally"]
            /\ UNCHANGED <<self_driver, quits, ndrivers, page>>
       ELSE /\ ndrivers' = ndrivers + 1
            /\ quits' = Append(quits, 0)
            /\ page' = Append(page, "")
            /\ self_driver' = [self_driver EXCEPT ![a] = Some(ndrivers + 1)]
            /\ search' = [search EXCEPT ![c].task[a] = "opened"]
    /\ UNCHANGED <<scrapers, max_workers, managerVars, frame, ncalls, pureVars, storeVars>>

\* self.driver.get(search_url): the session self.driver refers to loads the
\* listing of this call's query; on a session that was quit the call raises
\* and the except clause of search_products logs it.
PairGet(c, a) ==
    /\ search[c].pc = "collecting"
    /\ search[c].task[a] = "opened"
    /\ LET d == self_driver[a][1]
       IN IF quits[d] > 0
          THEN /\ search' = [search EXCEPT ![c].task[a] = "finally"]
               /\ page' = page
          ELSE /\ search' = [search EXCEPT ![c].task[a] = "loaded"]
               /\ page' = [page EXCEPT ![d] = search[c].query]
    /\ UNCHANGED <<scrapers, max_workers, managerVars, singleVars, pureVars, storeVars>>

\* _extract_product_cards and the parsing loop: the cards are those of the
\* page the session self.driver refers to shows (none when that session was
\* quit: _extract_product_cards returns [] on any exception).
PairExtract(c, a) ==
    /\ search[c].pc = "collecting"
    /\ search[c].task[a] = "loaded"
    /\ LET d == self_driver[a][1]
           product_cards_found == IF quits[d] > 0 THEN <<>> ELSE QueryListing(page[d])
       IN search' = [search EXCEPT ![c].task[a] = "finally",
                                   ![c].products[a] = ParseCards(a, product_cards_found)]
    /\ UNCHANGED <<scrapers, max_workers, managerVars, singleVars, pureVars, page, storeVars>>

\* finally: if self.driver: self.driver.quit(); then products is returned,
\* or quit() raised.
PairFinally(c, a, quit_raises) ==
    /\ search[c].pc = "collecting"
    /\ search[c].task[a] = "finally"
    /\ LET d == self_driver[a]
       IN IF d = None
          THEN /\ quits' = quits
               /\ search' = [search EXCEPT ![c].task[a] = "returned"]
          ELSE /\ quits' = [quits EXCEPT ![d[1]] = @ + 1]
               /\ search' = [search EXCEPT
                                ![c].task[a] = IF quit_raises THEN "raised" ELSE "returned"]
    /\ UNCHANGED <<scrapers, max_workers, managerVars, frame, self_driver, ndrivers, ncalls,
                   pureVars, page, storeVars>>

\* One iteration of the loop over as_completed of call c: the list of a
\* finished task is appended to the call's all_products, or its exception
\* is logged.
PairCollect(c, a) ==
    /\ search[c].pc = "collecting"
    /\ search[c].task[a] \in {"returned", "raised"}
    /\ search' = [search EXCEPT
                     ![c].task[a] = "collected",
                     ![c].all_products =
                         IF search[c].task[a] = "returned"
                         THEN Extend(@, search[c].products[a])
                         ELSE @]
    /\ UNCHANGED <<scrapers, max_workers, managerVars, singleVars, pureVars, page, storeVars>>

\* The loop of call c ends and its all_products is returned.
PairReturn(c) ==
    /\ search[c].pc = "collecting"
    /\ \A a \in scrapers : search[c].task[a] = "collected"
    /\ search' = [search EXCEPT ![c].pc = "returned"]
    /\ UNCHANGED <<scrapers, max_workers, managerVars, singleVars, pureVars, page, storeVars>>

PairNext ==
    \/ \E c \in Callers, product_type \in ProductTypes : PairCall(c, product_type)
    \/ \E c \in Callers, a \in Retailers, raises \in BOOLEAN : PairInitDriver(c, a, raises)
    \/ \E c \in Callers, a \in Retailers : PairGet(c, a)
    \/ \E c \in Callers, a \in Retailers : PairExtract(c, a)
    \/ \E c \in Callers, a \in Retailers, quit_raises \in BOOLEAN : PairFinally(c, a, quit_raises)
    \/ \E c \in Callers, a \in Retailers : PairCollect(c, a)
    \/ \E c \in Callers : PairReturn(c)

PairSpec == SingletonInit /\ [][PairNext]_vars

(***************************************************************************)
(* The wishlist endpoints (app/api/v1/wishlist.py) on the module-level     *)
(* list wishlist_storage.  A stored item is the dictionary add_to_wishlist *)
(* built, with the keys the claims read; history records each request      *)
(* with the status and the body of its response (an exception that leaves  *)
(* a handler is answered with status 500).                                 *)
(***************************************************************************)
\* The three items get_wishlist always appends.
MockWishlist ==
    << [wishlist_id |-> "wish_1", user_id |-> "test_user",
        product |-> [product_id |-> "prod_wish_1", price |-> 2800],
        price_alert_threshold |-> 2500, notified |-> FALSE],
       [wishlist_id |-> "wish_2", user_id |-> "test_user",
        product |-> [product_id |-> "prod_wish_2", price |-> 1890],
        price_alert_threshold |-> 1700, notified |-> FALSE],
       [wishlist_id |-> "wish_3", user_id |-> "test_user",
        product |-> [product_id |-> "prod_wish_3", price |-> 695],
        price_alert_threshold |-> 600, notified |-> FALSE] >>

\* all_items = wishlist_storage + mock_wishlist
WishlistItems == wishlist_storage \o MockWishlist

\* The requests of the clients: product ids and alert thresholds.
ProductIds == {"prod_1", "prod_2"}

Thresholds == {None, Some(0), Some(100)}

\* One request has been handled.
Handled(f, request, status, body) ==
    history' = Append(history, [f |-> f, request |-> request, status |-> status,
                                body |-> body])

\* The clock advances by a second.
Tick ==
    /\ now < Boot + MaxTicks
    /\ now' = now + 1
    /\ UNCHANGED <<scrapers, max_workers, managerVars, singleVars, pureVars, pairVars,
                   wishlist_storage, saved_searches_db, history>>

\* GET /: the stored items followed by the mock items.
GetWishlist ==
    /\ Len(history) < MaxOps
    /\ Handled("get_wishlist", None, 200,
               [items |-> WishlistItems, total_count |-> Len(WishlistItems)])
    /\ UNCHANGED <<scrapers, max_workers, managerVars, singleVars, pureVars, pairVars,
                   wishlist_storage, saved_searches_db, now>>

\* POST /: the item is built around a mock product, stored and returned.
AddToWishlist(product_id, price_alert_threshold) ==
    /\ Len(history) < MaxOps
    /\ LET mock_product == [product_id |-> product_id, price |-> 1500]
           wishlist_item ==
               [wishlist_id |-> "wish_" \o NatStr(now),
                user_id |-> "test_user",
                product |-> mock_product,
                price_alert_threshold |->
                    IF price_alert_threshold # None /\ Truthy(price_alert_threshold[1])
                    THEN price_alert_threshold[1]
                    ELSE (mock_product.price * 9) \div 10,
                notified |-> FALSE]
       IN /\ wishlist_storage' = Append(wishlist_storage, wishlist_item)
          /\ Handled("add_to_wishlist", Some(product_id), 200, wishlist_item)
    /\ UNCHANGED <<scrapers, max_workers, managerVars, singleVars, pureVars, pairVars,
                   saved_searches_db, now>>

\* item["id"] of the list comprehension.
RemoveKey == "id"

\* DELETE /{item_id}: the items whose key differs from item_id are kept;
\* the lookup of the key raises KeyError on an item that does not have it.
RemoveFromWishlist(item_id) ==
    /\ Len(history) < MaxOps
    /\ IF \E i \in DOMAIN wishlist_storage : RemoveKey \notin DOMAIN wishlist_storage[i]
       THEN /\ wishlist_storage' = wishlist_storage
            /\ Handled("remove_from_wishlist", Some(item_id), 500, "KeyError")
       ELSE /\ wishlist_storage' =
                   SelectSeq(wishlist_storage, LAMBDA item : item[RemoveKey] # item_id)
            /\ Handled("remove_from_wishlist", Some(item_id), 200,
                       [success |-> TRUE, message |-> "Removed from wishlist"])
    /\ UNCHANGED <<scrapers, max_workers, managerVars, singleVars, pureVars, pairVars,
                   saved_searches_db, now>>

\* The identifiers a client may ask to remove: those of the items
\* get_wishlist shows, and one that no item has.
ItemIds == {WishlistItems[i].wishlist_id : i \in DOMAIN WishlistItems} \cup {"wish_0"}

WishlistNext ==
    \/ Tick
    \/ GetWishlist
    \/ \E product_id \in ProductIds, price_alert_threshold \in Thresholds :
          AddToWishlist(product_id, price_alert_threshold)
    \/ \E item_id \in ItemIds : RemoveFromWishlist(item_id)

WishlistSpec == SingletonInit /\ [][WishlistNext]_vars

(***************************************************************************)
(* The saved-search endpoints (app/api/v1/saved_searches.py) on the        *)
(* module-level dictionary saved_searches_db: the sequence of its values   *)
(* in insertion order, each holding its key in saved_search_id.  The       *)
(* identifiers uuid4 returns are taken to be all different: the k-th one   *)
(* is Uuid(k).                                                             *)
(***************************************************************************)
\* The two searches get_saved_searches shows for an empty store.
MockSearches ==
    << [saved_search_id |-> "search_1", user_id |-> "user_123", name |-> "Evening Dresses",
        enable_daily_briefing |-> TRUE, result_count |-> 42],
       [saved_search_id |-> "search_2", user_id |-> "user_123", name |-> "Casual Chic",
        enable_daily_briefing |-> FALSE, result_count |-> 87] >>

Uuid(k) == "uuid" \o NatStr(k)

\* The number of identifiers uuid4 has returned.
Issued == Len(SelectSeq(history, LAMBDA h : h.f = "create_saved_search"))

SearchNames == {"Evening", "Casual"}

\* The identifiers a client may name: those uuid4 can have returned, one it
\* never returns, and that of a mock search.
SearchIds == {Uuid(k) : k \in 0..MaxOps} \cup {"search_1"}

\* search_id in saved_searches_db
InDb(db, search_id) == \E i \in DOMAIN db : db[i].saved_search_id = search_id

\* saved_searches_db[search_id] = saved_search
DictSet(db, search_id, saved_search) ==
    IF InDb(db, search_id)
    THEN [i \in DOMAIN db |-> IF db[i].saved_search_id = search_id THEN saved_search
                              ELSE db[i]]
    ELSE Append(db, saved_search)

\* del saved_searches_db[search_id]
DictDel(db, search_id) == SelectSeq(db, LAMBDA v : v.saved_search_id # search_id)

\* A listing that always ends with the mock searches.
AllSearchesWithMocks(db) == db \o MockSearches

\* list(saved_searches_db.values()), or the mock searches when that is empty.
AllSearches(db) == IF Len(db) = 0 THEN MockSearches ELSE db

\* GET /
GetSavedSearches ==
    /\ Len(history) < MaxOps
    /\ Handled("get_saved_searches", None, 200, AllSearches(saved_searches_db))
    /\ UNCHANGED <<scrapers, max_workers, managerVars, singleVars, pureVars, pairVars,
                   wishlist_storage, saved_searches_db, now>>

\* POST /: the search is stored under a new identifier and returned.
CreateSavedSearch(name, enable_daily_briefing) ==
    /\ Len(history) < MaxOps
    /\ LET search_id == Uuid(Issued + 1)
           saved_search == [saved_search_id |-> search_id, user_id |-> "user_123",
                            name |-> name,
                            enable_daily_briefing |-> enable_daily_briefing,
                            result_count |-> 0]
       IN /\ saved_searches_db' = DictSet(saved_searches_db, search_id, saved_search)
          /\ Handled("create_saved_search", Some(name), 200, saved_search)
    /\ UNCHANGED <<scrapers, max_workers, managerVars, singleVars, pureVars, pairVars,
                   wishlist_storage, now>>

\* PUT /{search_id}: a mock search is returned, the store is not read.
UpdateSavedSearch(search_id, name) ==
    /\ Len(history) < MaxOps
    /\ Handled("update_saved_search", Some(search_id), 200,
               [saved_search_id |-> search_id, user_id |-> "user_123",
                name |-> IF name # None THEN name[1] ELSE "Updated Search",
                enable_daily_briefing |-> TRUE, result_count |-> 42])
    /\ UNCHANGED <<scrapers, max_workers, managerVars, singleVars, pureVars, pairVars,
                   wishlist_storage, saved_searches_db, now>>

\* DELETE /{search_id}
DeleteSavedSearch(search_id) ==
    /\ Len(history) < MaxOps
    /\ saved_searches_db' = IF InDb(saved_searches_db, search_id)
                            THEN DictDel(saved_searches_db, search_id)
                            ELSE saved_searches_db
    /\ Handled("delete_saved_search", Some(search_id), 200,
               [message |-> "Search deleted successfully"])
    /\ UNCHANGED <<scrapers, max_workers, managerVars, singleVars, pureVars, pairVars,
                   wishlist_storage, now>>

SavedSearchNext ==
    \/ GetSavedSearches
    \/ \E name \in SearchNames, enable_daily_briefing \in BOOLEAN :
          CreateSavedSearch(name, enable_daily_briefing)
    \/ \E search_id \in SearchIds, name \in {None} \cup {Some(n) : n \in SearchNames} :
          UpdateSavedSearch(search_id, name)
    \/ \E search_id \in SearchIds : DeleteSavedSearch(search_id)

SavedSearchSpec == SingletonInit /\ [][SavedSearchNext]_vars

(***************************************************************************)
(* The prices of a product on sale.  SaleCards are cards that show a       *)
(* current and an original price, in every order of magnitude;             *)
(* _parse_single_product is the parser of the Farfetch API scraper         *)
(* (app/scrapers/farfetch_scraper.py) on the price fields of an item,      *)
(* where 0 stands for a field that is missing or falsy.                    *)
(***************************************************************************)
SalePriceTexts == {"$0", "$1", "$5", "$9"}

SaleCards ==
    { Card(Some("Gucci"), Some("Dress"), Some(price), Some(original), Some("/p1")) :
        price \in SalePriceTexts, original \in SalePriceTexts }

\* round(num / den * 100, 1) in tenths of a percent, den > 0.
RoundTenths(num, den) ==
    LET q == (1000 * num) \div den
        r == (1000 * num) % den
    IN IF 2 * r > den \/ (2 * r = den /\ q % 2 = 1) THEN q + 1 ELSE q

ItemPrices == {0, 1, 5, 9}

Items == [finalPrice : ItemPrices, initialPrice : ItemPrices]

\* FarfetchScraper._parse_single_product of app/scrapers: the price fields.
_parse_single_product(item) ==
    LET price == item.finalPrice
        original_price == IF Truthy(item.initialPrice) THEN Some(item.initialPrice)
                          ELSE None
        discount_percentage ==
            IF original_price # None /\ original_price[1] > price
            THEN Some(RoundTenths(original_price[1] - price, original_price[1]))
            ELSE None
    IN [retailer_name |-> "Farfetch",
        price |-> price,
        original_price |-> original_price,
        discount_percentage |-> discount_percentage]

(***************************************************************************)
(* The products _generate_product_hash is compared on: brands and names    *)
(* with and without the character that joins the hashed string.            *)
(***************************************************************************)
HashedProducts == [brand : {"a", "a_b"}, name : {"c", "b_c"}, price : {5, 7}]

(***************************************************************************)
(* One application of one of these functions to an argument.               *)
(***************************************************************************)
PureInit ==
    /\ scrapers = {RetailerOrder[1]}
    /\ max_workers = MaxWorkers
    /\ ManagerIdle
    /\ SingleIdle
    /\ PairIdle
    /\ StoreIdle
    /\ ret = None
    /\ \/ \E value \in PriceValues : arg = Some([f |-> "_extract_price", value |-> value])
       \/ \E a \in Retailers, cards \in Pages :
             \E raising \in SUBSET DOMAIN cards :
                arg = Some([f |-> "loop", retailer_name |-> a, cards |-> cards,
                            raising |-> raising])
       \/ \E search_request \in SearchRequests, response \in Responses :
             arg = Some([f |-> "search_products", search_request |-> search_request,
                         response |-> response])
       \/ \E card \in SaleCards :
             arg = Some([f |-> "_parse_product_card", card_element |-> card])
       \/ \E item \in Items :
             arg = Some([f |-> "_parse_single_product", item |-> item])
       \/ \E product_data \in HashedProducts, other \in HashedProducts :
             arg = Some([f |-> "_generate_product_hash", product_data |-> product_data,
                         other |-> other])

Applying(f) == arg # None /\ arg[1].f = f /\ ret = None

Applied(f) == arg # None /\ arg[1].f = f /\ ret # None

ExtractPrice ==
    /\ Applying("_extract_price")
    /\ ret' = Some(ExtractPriceCall(arg[1].value))
    /\ UNCHANGED <<scrapers, max_workers, managerVars, singleVars, pairVars, storeVars, arg>>

ParseListing ==
    /\ Applying("loop")
    /\ ret' = Some(Loop(arg[1].retailer_name, arg[1].cards, arg[1].raising))
    /\ UNCHANGED <<scrapers, max_workers, managerVars, singleVars, pairVars, storeVars, arg>>

Search ==
    /\ Applying("search_products")
    /\ ret' = Some(search_products(arg[1].search_request, arg[1].response))
    /\ UNCHANGED <<scrapers, max_workers, managerVars, singleVars, pairVars, storeVars, arg>>

ParseCard ==
    /\ Applying("_parse_product_card")
    /\ ret' = Some(_parse_product_card(arg[1].card_element, BaseUrl(RetailerOrder[1])))
    /\ UNCHANGED <<scrapers, max_workers, managerVars, singleVars, pairVars, storeVars, arg>>

ParseItem ==
    /\ Applying("_parse_single_product")
    /\ ret' = Some(_parse_single_product(arg[1].item))
    /\ UNCHANGED <<scrapers, max_workers, managerVars, singleVars, pairVars, storeVars, arg>>

\* The hashes of two products.
HashBoth ==
    /\ Applying("_generate_product_hash")
    /\ ret' = Some(<<_generate_product_hash(arg[1].product_data),
                     _generate_product_hash(arg[1].other)>>)
    /\ UNCHANGED <<scrapers, max_workers, managerVars, singleVars, pairVars, storeVars, arg>>

PureNext == ExtractPrice \/ ParseListing \/ Search \/ ParseCard \/ ParseItem \/ HashBoth

PureSpec == PureInit /\ [][PureNext]_vars

(***************************************************************************)
(* Properties of search_all_retailers.                                     *)
(***************************************************************************)
Indices == DOMAIN all_products

\* The products of all_products that retailer a produced, in order.
FromRetailer(a) == SelectSeq(all_products, LAMBDA p : p.retailer_name = a)

Hashes(prods) == {prods[i].product_hash : i \in DOMAIN prods}

\* C1: every product of the list search_all returns has a non-empty
\* product_url and a price strictly greater than 0.
C1_ValidProducts ==
    pc = "returned" =>
        \A i \in Indices : all_products[i].product_url # "" /\ all_products[i].price > 0

\* C2: the list one search_all call returns holds at most one product of
\* each product_hash, whichever adapters produced it and however often.
C2_Deduplicated ==
    pc = "returned" =>
        \A i, j \in Indices :
            all_products[i].product_hash = all_products[j].product_hash => i = j

\* C3: when an adapter task never returns, search_all still eventually
\* returns, and that adapter contributes nothing to the returned list.
C3_TimeoutIsolation ==
    /\ (\E a \in Retailers : task[a] = "hung") ~> (pc = "returned")
    /\ [](pc = "returned" => \A a \in Retailers : task[a] = "hung" => FromRetailer(a) = <<>>)

\* C4: whichever adapter tasks raise, search_all does not raise, and the list
\* it returns holds the products of every adapter that returned, as returned,
\* and no product of an adapter that raised.
C4_FailureIsolation ==
    /\ pc # "raised"
    /\ pc = "returned" =>
          /\ \A a \in scrapers :
                /\ task[a] = "returned" => FromRetailer(a) = result[a]
                /\ task[a] = "raised" => FromRetailer(a) = <<>>
          /\ \A i \in Indices : all_products[i].retailer_name \in scrapers
          /\ (\A a \in scrapers : task[a] = "raised") => all_products = <<>>

\* C4's case: search_all has returned, one adapter raised after parsing a
\* product and another adapter returned a product.
C4_Witness ==
    /\ pc = "returned"
    /\ \E a, b \in scrapers :
          /\ task[a] = "raised" /\ products[a] # <<>>
          /\ task[b] = "returned" /\ result[b] # <<>>

\* C5: when an adapter exceeds its bound of 60, search_all returns the
\* products of the adapters that completed within the bound, and exactly those.
C5_TimeoutNotSurfaced ==
    pc = "returned" =>
        \A a \in scrapers :
            FromRetailer(a) =
                IF task[a] = "returned" /\ elapsed[a] <= ResultTimeout
                THEN result[a] ELSE <<>>

\* C6: the product_hash values of the returned list are among those of the
\* lists the adapters' search_products calls returned.
C6_MergeNeverInvents ==
    pc = "returned" =>
        Hashes(all_products) \subseteq
            UNION {Hashes(result[a]) : a \in {b \in scrapers : task[b] = "returned"}}

\* C6's case: search_all has returned products while an adapter that had
\* parsed a product raised instead of returning it.
C6_Witness ==
    /\ pc = "returned"
    /\ all_products # <<>>
    /\ \E a \in scrapers : task[a] = "raised" /\ products[a] # <<>>

\* C7: never more than max_workers adapter tasks are in flight, and every
\* registered adapter of a call is eventually started.
C7_BoundedConcurrency ==
    /\ [](Cardinality(InFlight) <= max_workers)
    /\ (pc = "collecting") ~> (\A a \in scrapers : calls[a] >= 1)

\* C8: within one search_all call search_products of each registered adapter
\* is invoked at most once at any time, and exactly once when the call
\* returns, whether the adapter succeeded, failed or ran beyond its bound.
C8_NoRetry ==
    /\ \A a \in Retailers : calls[a] <= 1
    /\ \A a \in Retailers \ scrapers : calls[a] = 0
    /\ pc = "returned" => \A a \in scrapers : calls[a] = 1

\* C8's case: the call has returned after one adapter raised and another
\* returned beyond its bound.
C8_Witness ==
    /\ pc = "returned"
    /\ \E a, b \in scrapers :
          /\ task[a] = "raised"
          /\ task[b] = "returned" /\ elapsed[b] > ResultTimeout

\* C9: search_all returns only when every dispatched task has returned or
\* raised, and a call all of whose tasks do so eventually returns.
C9_ReturnsWhenAllDone ==
    /\ [](pc = "returned" => \A a \in scrapers : Done(a))
    /\ (pc = "collecting") ~> (pc = "returned" \/ \E a \in Retailers : task[a] = "hung")

\* C9's case: a call with at least two registered adapters has returned.
C9_Witness ==
    /\ pc = "returned"
    /\ Cardinality(scrapers) >= 2
    /\ \E a \in scrapers : task[a] = "raised"

\* C10: with no adapter registered search_all raises instead of returning a
\* list, and it raises in no other case.
C10_NoAdaptersRaises ==
    /\ scrapers = {} => pc # "returned"
    /\ pc = "raised" => scrapers = {}

(***************************************************************************)
(* Properties of search_single_retailer and of one search_products call.   *)
(***************************************************************************)
\* C11: when the adapter search_single was called for never returns,
\* search_single still eventually returns, with an empty list and no error.
C11_SingleTimeout ==
    \A t \in Callers :
        (frame[t].pc = "hung") ~> (frame[t].pc = "returned" /\ frame[t].result = <<>>)

\* C20: when a search_products call has returned, by whichever way its try
\* block was left, the browser session that call opened has been quit.
C20_GuaranteedRelease ==
    \A t \in Callers :
        (frame[t].pc = "returned" /\ frame[t].driver # None)
        => quits[frame[t].driver[1]] >= 1

(***************************************************************************)
(* Properties of the product hash.                                         *)
(***************************************************************************)
\* C12: two products with the same brand, name and price have the same
\* product_hash, whichever retailer's adapter built them and whatever their
\* other fields are.
C12_HashDeterminism ==
    \A a, b \in Retailers :
        \A i \in DOMAIN products[a], j \in DOMAIN products[b] :
            (/\ products[a][i].brand = products[b][j].brand
             /\ products[a][i].name = products[b][j].name
             /\ products[a][i].price = products[b][j].price)
            => products[a][i].product_hash = products[b][j].product_hash

\* C12's case: the adapters of two retailers have built products with the
\* same brand, name and price and different URLs.
C12_Witness ==
    \E a, b \in Retailers :
        \E i \in DOMAIN products[a], j \in DOMAIN products[b] :
            /\ a # b
            /\ products[a][i].brand = products[b][j].brand
            /\ products[a][i].name = products[b][j].name
            /\ products[a][i].price = products[b][j].price
            /\ products[a][i].product_url # products[b][j].product_url

(***************************************************************************)
(* Properties of the search endpoint.                                      *)
(***************************************************************************)
\* C13: the results of the endpoint are exactly the products the ASOS API
\* offered that satisfy every supplied filter together (price_min,
\* price_max, the brand allow-list, in_stock_only, on_sale_only), in the
\* order in which they were offered; a filter that is 0, empty or false
\* removes nothing.
C13_FilterConjunction ==
    Applied("search_products") =>
        LET q == arg[1].search_request
            offered == IF arg[1].response.ok
                       THEN [i \in DOMAIN arg[1].response.products |->
                                _transform_product(arg[1].response.products[i])]
                       ELSE <<>>
            Satisfies(p) ==
                /\ Truthy(q.price_min) => p.price >= q.price_min
                /\ Truthy(q.price_max) => p.price <= q.price_max
                /\ q.brands # <<>> =>
                      \E k \in DOMAIN q.brands : Lower(p.brand) = Lower(q.brands[k])
                /\ q.in_stock_only => p.in_stock
                /\ q.on_sale_only => p.discount_percentage # None
        IN ret[1].results = SelectSeq(offered, Satisfies)

\* C14: with sort key price_asc the results are ordered by non-decreasing
\* price, with price_desc by non-increasing price and with discount_desc by
\* non-increasing discount, a missing discount counting as 0.
C14_SortOrders ==
    Applied("search_products") =>
        LET sort_by == arg[1].search_request.sort_by
            results == ret[1].results
            Discount(p) == IF p.discount_percentage = None THEN 0
                           ELSE p.discount_percentage[1]
        IN \A i, j \in DOMAIN results :
              i < j =>
                 /\ sort_by = Some("price_asc") => results[i].price <= results[j].price
                 /\ sort_by = Some("price_desc") => results[i].price >= results[j].price
                 /\ sort_by = Some("discount_desc") =>
                       Discount(results[i]) >= Discount(results[j])

\* C15: with a sort key that is none of price_asc, price_desc, discount_desc
\* and date_desc the endpoint answers with the products it had before any
\* ordering (the filtered real products, or the mock product when there
\* are none), in their original order, and raises no error.
C15_UnknownSortKeyIdentity ==
    (/\ Applied("search_products")
     /\ arg[1].search_request.sort_by \notin
           {None, Some("price_asc"), Some("price_desc"), Some("discount_desc"),
            Some("date_desc")})
    => LET real_products == RealProducts(arg[1].search_request, arg[1].response)
       IN /\ ret[1].results = IF real_products # <<>> THEN real_products ELSE MockProducts
          /\ ret[1].total_count = Len(ret[1].results)

\* C15's case: the endpoint has answered a request with an unknown sort key
\* with two products that an ordering by price would exchange.
C15_Witness ==
    /\ Applied("search_products")
    /\ arg[1].search_request.sort_by = Some("relevance")
    /\ Len(ret[1].results) >= 2
    /\ ret[1].results[1].price > ret[1].results[2].price

(***************************************************************************)
(* Properties of the parsing loop and of _extract_price.                   *)
(***************************************************************************)
\* C16: the loop over the product cards returns, in listing order, the
\* product of every card on which the parser neither raises nor returns
\* None, and nothing else: a card that is rejected or on which the parser
\* raises is dropped alone, and the loop does not fail.
C16_PerItemSkip ==
    Applied("loop") =>
        LET a == arg[1].retailer_name
            cards == arg[1].cards
            kept == {i \in DOMAIN cards :
                        /\ i \notin arg[1].raising
                        /\ _parse_product_card(cards[i], BaseUrl(a)) # None}
            Rank(i) == Cardinality({j \in kept : j <= i})
        IN /\ Len(ret[1]) = Cardinality(kept)
           /\ \A i \in kept : ret[1][Rank(i)] = ParseAndTag(a, <<>>, cards[i])[1]

\* C16's case: the loop has run on a listing of two valid cards, the
\* parser has raised on the second one, and the loop has returned the
\* product of the first card.
C16_Witness ==
    /\ Applied("loop")
    /\ Len(arg[1].cards) >= 2
    /\ 1 \notin arg[1].raising
    /\ _parse_product_card(arg[1].cards[1], BaseUrl(arg[1].retailer_name)) # None
    /\ 2 \in arg[1].raising
    /\ _parse_product_card(arg[1].cards[2], BaseUrl(arg[1].retailer_name)) # None
    /\ Len(ret[1]) = 1

\* C17: _extract_price raises for no argument: it returns the value float()
\* gives for the text left after removing $, €, £ and commas and stripping
\* blanks when that text is a number, and 0.0 for every other text and for
\* a value that is no text.
C17_ExtractPriceTotal ==
    Applied("_extract_price") =>
        LET value == arg[1].value
        IN /\ ret[1].raised = ""
           /\ ret[1].value =
                 IF value.type = "str" /\ ParseFloat(PriceClean(value.text)).ok
                 THEN ParseFloat(PriceClean(value.text)).val
                 ELSE 0

\* C17's case: _extract_price has been called with None and has returned 0.0.
C17_Witness ==
    /\ Applied("_extract_price")
    /\ arg[1].value = NoneValue
    /\ ret[1] = [raised |-> "", value |-> 0]

(***************************************************************************)
(* Properties of the order of the products.                                *)
(***************************************************************************)
\* C18: the products an adapter builds are an order-preserving sub-sequence
\* of the cards of its page, and so are the products of that adapter in the
\* merged list of search_all: two products of one adapter stand in the
\* merged list in the order of their cards.
C18_ListingOrder ==
    \A a \in Retailers :
        LET cards == product_cards[a]
            SubSequence(prods) ==
                \E f \in [DOMAIN prods -> DOMAIN cards] :
                    /\ \A k, l \in DOMAIN prods : k < l => f[k] < f[l]
                    /\ \A k \in DOMAIN prods : ParseAndTag(a, <<>>, cards[f[k]]) = <<prods[k]>>
        IN SubSequence(products[a]) /\ SubSequence(FromRetailer(a))

\* C18's case: search_all has returned a list in which two different
\* products of one adapter, whose page held a rejected card between their
\* cards, follow the products of another adapter.
C18_Witness ==
    /\ pc = "returned"
    /\ \E a, b \in scrapers :
          /\ a # b
          /\ Len(product_cards[a]) = 3
          /\ Len(FromRetailer(a)) = 2
          /\ FromRetailer(a)[1] # FromRetailer(a)[2]
          /\ FromRetailer(b) # <<>>
          /\ all_products[1].retailer_name = b

\* C19: the accumulator of a call changes only by one list being appended
\* to it whole (or by a new call emptying it): in every state the products
\* of each adapter form one contiguous block of it, the block of an adapter
\* whose future was handled is the list that adapter returned, and no other
\* adapter has a product in it.
C19_SerializedAppends ==
    /\ [](/\ \A i, j, k \in Indices :
               (i < j /\ j < k /\ all_products[i].retailer_name = all_products[k].retailer_name)
               => all_products[j].retailer_name = all_products[i].retailer_name
          /\ \A a \in Retailers :
               FromRetailer(a) = IF a \in yielded /\ task[a] = "returned"
                                 THEN result[a] ELSE <<>>)
    /\ [][all_products' # all_products =>
             \/ all_products' = <<>>
             \/ \E a \in scrapers \ yielded :
                   /\ yielded' = yielded \cup {a}
                   /\ all_products' = all_products \o result[a]]_vars

\* C19's case: search_all has returned a list that holds a block of two
\* products of one adapter and a block of two products of another one.
C19_Witness ==
    /\ pc = "returned"
    /\ \E a, b \in scrapers :
          /\ a # b
          /\ Len(FromRetailer(a)) = 2
          /\ Len(FromRetailer(b)) = 2
          /\ Len(all_products) = 4

(***************************************************************************)
(* Properties of the products the scrapers emit.                           *)
(***************************************************************************)
\* C21: every product a scraper's search_products emits (the BaseScraper
\* loop, and the ASOS scraper's search) carries the retailer_name of the
\* scraper that produced it, a scraped_at timestamp, and a product_hash that
\* equals the hash of its own brand, name and price.
C21_TaggedProducts ==
    LET Tagged(p, retailer_name) ==
            /\ p.retailer_name = retailer_name
            /\ "scraped_at" \in DOMAIN p
            /\ "product_hash" \in DOMAIN p
            /\ p.product_hash = _generate_product_hash(p)
    IN /\ Applied("loop") =>
            \A i \in DOMAIN ret[1] : Tagged(ret[1][i], arg[1].retailer_name)
       /\ Applied("search_products") =>
            LET emitted == search_asos_products(arg[1].response, Limit,
                                                arg[1].search_request.price_min,
                                                arg[1].search_request.price_max)
            IN \A i \in DOMAIN emitted : Tagged(emitted[i], "ASOS")

\* C22: in every product a scraper produces (the Farfetch card parser, the
\* ASOS transformation, the Farfetch API parser), an original_price that is
\* present is strictly greater than price, and a discount_percentage that is
\* present lies between 0 and 100, whatever the current and previous prices
\* that were parsed.
C22_PriceOrder ==
    LET Ordered(p, unit) ==
            /\ p.original_price # None => p.original_price[1] > p.price
            /\ p.discount_percentage # None =>
                  /\ 0 <= p.discount_percentage[1]
                  /\ p.discount_percentage[1] <= 100 * unit
    IN /\ Applied("_parse_product_card") /\ ret[1] # None => Ordered(ret[1][1], 100)
       /\ Applied("_parse_single_product") => Ordered(ret[1], 10)
       /\ Applied("search_products") /\ arg[1].response.ok =>
             \A i \in DOMAIN arg[1].response.products :
                Ordered(_transform_product(arg[1].response.products[i]), 1)

\* C23: in every response of the search endpoint total_count is the number
\* of elements of results, on the real-data path and on the fallback path.
C23_TotalCount ==
    Applied("search_products") => ret[1].total_count = Len(ret[1].results)

\* The endpoint has answered with two real products.
C23_Witness ==
    /\ Applied("search_products")
    /\ Len(ret[1].results) = 2
    /\ \A i \in DOMAIN ret[1].results : ret[1].results[i].retailer_name = "ASOS"

(***************************************************************************)
(* Properties of the browser sessions of one scraper instance.             *)
(***************************************************************************)
\* C24: across any sequence or interleaving of search_products calls on the
\* same scraper instance, every browser session that is created is quit
\* exactly once: none is quit twice, none is quit while the call that
\* created it is still using it, and none is left unquit once every call
\* has returned.
C24_DriverQuitOnce ==
    /\ \A d \in DOMAIN quits : quits[d] <= 1
    /\ \A t \in Callers :
          frame[t].pc = "scraping" => quits[frame[t].driver[1]] = 0
    /\ (\A t \in Callers : frame[t].pc \in {"idle", "returned"})
          => \A d \in DOMAIN quits : quits[d] = 1

\* C26: two products collide only when they share the whole brand, name
\* and price: the hashed string, hence the product_hash, differs for any two
\* products that differ in one of the three, also when brand or name contain
\* the character '_'.
C26_HashInjective ==
    Applied("_generate_product_hash") =>
        LET p == arg[1].product_data
            q == arg[1].other
        IN (p.brand # q.brand \/ p.name # q.name \/ p.price # q.price)
              => ret[1][1] # ret[1][2]

\* C27: the search endpoint never answers with an error and never with an
\* empty result list: whenever the ASOS search raises, yields no product, or
\* the brand filter removes every product, the response is the fallback
\* with exactly one product, the mock product.
C27_FallbackTotal ==
    Applied("search_products") =>
        LET q == arg[1].search_request
            response == arg[1].response
            emitted == search_asos_products(response, Limit, q.price_min, q.price_max)
            kept == SelectSeq(emitted, LAMBDA p : q.brands # <<>> => BrandMatches(p, q.brands))
        IN /\ "results" \in DOMAIN ret[1]
           /\ ret[1].results # <<>>
           /\ (response.raises # None \/ emitted = <<>> \/ kept = <<>>)
                 => /\ ret[1].results = MockProducts
                    /\ Len(ret[1].results) = 1
                    /\ ret[1].total_count = 1

\* The brand filter has removed every product the ASOS search yielded.
C27_Witness ==
    /\ Applied("search_products")
    /\ arg[1].search_request.brands = <<"GUCCI">>
    /\ search_asos_products(arg[1].response, Limit, arg[1].search_request.price_min,
                            arg[1].search_request.price_max) # <<>>
    /\ ret[1].results = MockProducts

(***************************************************************************)
(* Properties of search_single_retailer and test_retailer.                 *)
(***************************************************************************)
\* C28: search_single_retailer never raises; for a retailer that is not
\* registered it returns an empty list and no scraper is invoked; for a
\* registered retailer whose search_products raises it returns an empty
\* list; test_retailer returns True exactly when the search yielded at least
\* one product.
C28_SingleNeverRaises ==
    \A t \in Callers :
        /\ frame[t].pc # "raised"
        /\ (frame[t].pc = "returned" /\ frame[t].retailer_name \notin scrapers)
              => /\ frame[t].result = <<>>
                 /\ frame[t].driver = None
                 /\ frame[t].path = ""
        /\ (frame[t].pc = "returned" /\ frame[t].raised) => frame[t].result = <<>>
        /\ (frame[t].pc = "returned" /\ frame[t].test)
              => /\ frame[t].verdict # None
                 /\ frame[t].verdict[1] <=> Len(frame[t].result) >= 1

\* test_retailer has returned True on a registered retailer, and another
\* thread's search_single_retailer has returned [] after quit() raised.
C28_Witness ==
    \E t, u \in Callers :
        /\ frame[t].pc = "returned" /\ frame[t].test /\ frame[t].verdict = Some(TRUE)
        /\ frame[u].pc = "returned" /\ frame[u].raised /\ frame[u].products # <<>>
        /\ frame[u].result = <<>>

(***************************************************************************)
(* Properties of search_all_retailers calls that run at the same time.     *)
(***************************************************************************)
\* C25: of two search_all_retailers calls running at the same time on the
\* same manager, each returns a list that holds exactly the products its
\* own tasks returned, and no product of the listing of the other call's
\* query.
C25_IndependentAccumulators ==
    \A c \in Callers :
        search[c].pc = "returned" =>
            /\ \A a \in Retailers :
                  SelectSeq(search[c].all_products, LAMBDA p : p.retailer_name = a)
                    \in {<<>>, search[c].products[a]}
            /\ \A i \in DOMAIN search[c].all_products :
                  \E a \in Retailers :
                     \E k \in DOMAIN ParseCards(a, QueryListing(search[c].query)) :
                        search[c].all_products[i]
                          = ParseCards(a, QueryListing(search[c].query))[k]

(***************************************************************************)
(* Properties of the wishlist endpoints.                                   *)
(***************************************************************************)
\* C29: when remove_from_wishlist is called with the identifier of an item
\* that add_to_wishlist returned, it succeeds, the item is no longer among
\* the items get_wishlist returns, and every other stored item is left
\* unchanged.
C29_WishlistRoundTrip ==
    [][LET last == history'[Len(history')]
           item_id == last.request[1]
       IN (/\ Len(history') = Len(history) + 1
           /\ last.f = "remove_from_wishlist"
           /\ \E i \in DOMAIN wishlist_storage :
                 wishlist_storage[i].wishlist_id = item_id)
          => /\ last.status = 200
             /\ \A j \in DOMAIN WishlistItems' : WishlistItems'[j].wishlist_id # item_id
             /\ wishlist_storage' =
                   SelectSeq(wishlist_storage, LAMBDA item : item.wishlist_id # item_id)
      ]_vars

(***************************************************************************)
(* Properties of the saved-search endpoints.                               *)
(***************************************************************************)
\* C30: after any sequence of create and delete requests, get_saved_searches
\* returns exactly the searches that were created and not deleted since,
\* when there is one, and the two mock searches only when there is none;
\* deleting an identifier the store does not hold succeeds and changes
\* nothing.
C30_SavedSearchStore ==
    /\ [](\A g \in DOMAIN history :
            history[g].f = "get_saved_searches" =>
                LET Live == {i \in 1..(g - 1) :
                               /\ history[i].f = "create_saved_search"
                               /\ ~\E j \in (i + 1)..(g - 1) :
                                     /\ history[j].f = "delete_saved_search"
                                     /\ history[j].request
                                          = Some(history[i].body.saved_search_id)}
                    returned == history[g].body
                IN IF Live = {}
                   THEN returned = MockSearches
                   ELSE /\ Len(returned) = Cardinality(Live)
                        /\ {returned[k] : k \in DOMAIN returned}
                             = {history[i].body : i \in Live})
    /\ [][LET last == history'[Len(history')]
          IN (/\ Len(history') = Len(history) + 1
              /\ last.f = "delete_saved_search"
              /\ ~InDb(saved_searches_db, last.request[1]))
             => /\ last.status = 200
                /\ saved_searches_db' = saved_searches_db
         ]_vars

\* A search was created, an identifier the store does not hold was deleted,
\* and get_saved_searches returned the created search alone.
C30_Witness ==
    /\ Len(history) = 3
    /\ history[1].f = "create_saved_search"
    /\ history[2].f = "delete_saved_search"
    /\ history[2].request # Some(history[1].body.saved_search_id)
    /\ history[3].f = "get_saved_searches"
    /\ history[3].body = <<history[1].body>>

====
